---------------------------- MODULE Spec2Model ----------------------------
(***************************************************************************)
(* A model of crawler.py: recursive sitemap expansion (parse_sitemap), the *)
(* worker loop (fetch_and_process_url), the progress thread                *)
(* (update_progress) and the main thread (crawl_website), sharing          *)
(* seen_urls, the queue q, the lock and the two global counters.           *)
(*                                                                         *)
(* A URL is its text as a sequence of words, cut at the delimiters that    *)
(* urlparse looks for: "https://x.test/a?x=1" is                           *)
(* <<"https", ":", "//", "x.test", "/a", "?", "x=1">>.                     *)
(* A status string is its sequence of parts: 'OK' is <<"OK">> and          *)
(* f"Broken: {x}" is <<"Broken", x>>.  An optional float (elapsed) is <<>> *)
(* for None and <<n>> for n.                                               *)
(***************************************************************************)
EXTENDS Integers, Sequences, FiniteSets, TLC

\* crawl_website's num_threads (20 in the source), bounded here.
num_threads == 2

\* ThreadPoolExecutor(max_workers=5) in parse_sitemap.
max_workers == 5

-----------------------------------------------------------------------------
(* The web the crawler runs against: what each GET answers.                *)

\* A URL is its text, cut into words at its delimiters: a scheme, a host or
\* a query is one word, a path is one word that begins with a slash, and
\* each of ":", "//", "?" and "#" is a word of its own.
Word(w) == IF w = "" THEN <<>> ELSE <<w>>
After(mark, w) == IF w = "" THEN <<>> ELSE <<mark, w>>
UrlText(scheme, netloc, path, query, fragment) ==
    (IF scheme = "" THEN <<>> ELSE <<scheme, ":">>) \o After("//", netloc)
    \o Word(path) \o After("?", query) \o After("#", fragment)

Raw(path, query, fragment) == UrlText("https", "x.test", path, query, fragment)
Page(path) == <<"https", ":", "//", "x.test", path>>

Http(code, secs) == [kind |-> "http", status_code |-> code, elapsed |-> secs]
TransportError == [kind |-> "error", status_code |-> "", elapsed |-> 0]
NoAnswer == [kind |-> "hang", status_code |-> "", elapsed |-> 0]

\* A sitemap document: how its GET ends, and the body's root tag and entries.
Doc(fetch, code, root, sitemaps, urls) ==
    [fetch |-> fetch, status_code |-> code, root |-> root,
     sitemaps |-> sitemaps, urls |-> urls]
Index(children) == Doc("ok", "200", "sitemapindex", children, <<>>)
UrlSet(locs) == Doc("ok", "200", "urlset", <<>>, locs)

\* The <loc> texts the site "pair" draws its two entries from.
Schemes == {"https", ""}
Paths == {"/a", "/b"}
Queries == {"", "x=1", "x=2"}
Fragments == {"", "top"}
RawUrls ==
    {UrlText(s, "x.test", p, k, f) :
         s \in Schemes, p \in Paths, k \in Queries, f \in Fragments}

\* A page's content GET inside link extraction: the hrefs (already joined
\* to the page's URL), or a raise (transport error, parse error), or no answer.
Content(hrefs) == [kind |-> "ok", hrefs |-> hrefs]
ContentRaises == [kind |-> "raise", hrefs |-> <<>>]
ContentHangs == [kind |-> "hang", hrefs |-> <<>>]

Site(sitemaps, resp, content) ==
    [sitemaps |-> sitemaps, resp |-> resp, content |-> content]

NoMap == [x \in {} |-> x]

SiteOf ==
    \* page a links to b and to itself
    "selfloop" :> Site("root" :> UrlSet(<<Raw("/a", "", "")>>),
                       NoMap,
                       Page("/a") :> Content(<<Raw("/b", "", ""), Raw("/a", "", "top")>>))
    @@
    \* pages a and b link to each other; b also links to a page that is gone
    "cycle" :> Site("root" :> UrlSet(<<Raw("/a", "", "")>>),
                    Page("/c") :> Http("404", 2),
                    Page("/a") :> Content(<<Raw("/b", "", "")>>)
                    @@ Page("/b") :> Content(<<Raw("/a", "q=1", ""), Raw("/c", "", "")>>))
    @@
    \* a sitemap index with two children of three unique URLs each, no links
    "index2x3" :> Site("root" :> Index(<<"s1", "s2">>)
                       @@ "s1" :> UrlSet(<<Raw("/a", "", ""), Raw("/b", "", ""), Raw("/c", "", "")>>)
                       @@ "s2" :> UrlSet(<<Raw("/d", "", ""), Raw("/e", "", ""), Raw("/f", "", "")>>),
                       NoMap, NoMap)
    @@
    \* two children list the same page; the pages link to each other
    "overlap" :> Site("root" :> Index(<<"s1", "s2">>)
                      @@ "s1" :> UrlSet(<<Raw("/a", "x=1", "")>>)
                      @@ "s2" :> UrlSet(<<Raw("/a", "x=2", ""), Raw("/b", "", "")>>),
                      NoMap,
                      Page("/a") :> Content(<<Raw("/c", "", "")>>)
                      @@ Page("/b") :> Content(<<Raw("/c", "", "")>>))
    @@
    \* a 404 page and an unreachable page, both with links in their bodies
    "broken" :> Site("root" :> UrlSet(<<Raw("/a", "", ""), Raw("/b", "", ""), Raw("/c", "", "")>>),
                     Page("/a") :> Http("404", 2) @@ Page("/b") :> TransportError
                     @@ Page("/d") :> Http("500", 3),
                     Page("/a") :> Content(<<Raw("/e", "", "")>>)
                     @@ Page("/b") :> Content(<<Raw("/e", "", "")>>)
                     @@ Page("/c") :> Content(<<Raw("/d", "", "")>>))
    @@
    \* the content GET of page a raises inside link extraction
    "fault" :> Site("root" :> UrlSet(<<Raw("/a", "", ""), Raw("/b", "", "")>>),
                    NoMap,
                    Page("/a") :> ContentRaises
                    @@ Page("/b") :> Content(<<Raw("/c", "", "")>>))
    @@
    \* hosts that never answer: the check of b, the content GET of a
    "silent" :> Site("root" :> UrlSet(<<Raw("/a", "", ""), Raw("/b", "", "")>>),
                     Page("/b") :> NoAnswer,
                     Page("/a") :> ContentHangs)
    @@
    \* the root sitemap cannot be fetched
    "rooterror" :> Site("root" :> Doc("error", "", "urlset", <<>>, <<Raw("/a", "", "")>>),
                        NoMap, NoMap)
    @@
    \* the root sitemap answers 404 with a URL set as its body
    "root404" :> Site("root" :> Doc("ok", "404", "urlset", <<>>, <<Raw("/a", "", "")>>),
                      NoMap, NoMap)
    @@
    \* the root sitemap is neither an index nor a URL set
    "roothtml" :> Site("root" :> Doc("ok", "200", "html", <<"s1">>, <<Raw("/a", "", "")>>)
                       @@ "s1" :> UrlSet(<<Raw("/b", "", "")>>),
                       NoMap, NoMap)
    @@
    \* an index whose children fail in each way beside one that works,
    \* nested one level deeper
    "childfail" :> Site("root" :> Index(<<"s1", "s2", "s3", "s4">>)
                        @@ "s1" :> Doc("error", "", "urlset", <<>>, <<Raw("/a", "", "")>>)
                        @@ "s2" :> Doc("ok", "500", "urlset", <<>>, <<Raw("/b", "", "")>>)
                        @@ "s3" :> Doc("ok", "200", "html", <<>>, <<Raw("/c", "", "")>>)
                        @@ "s4" :> Index(<<"s5">>)
                        @@ "s5" :> UrlSet(<<Raw("/d", "", "")>>),
                        NoMap, NoMap)

    @@
    \* an index of six children, more than one executor runs at a time: two
    \* URL sets, three that fail, and an index nested two levels deeper
    "wide" :> Site("root" :> Index(<<"s1", "s2", "s3", "s4", "s5", "s6">>)
                   @@ "s1" :> Doc("error", "", "urlset", <<>>, <<Raw("/c", "", "")>>)
                   @@ "s2" :> UrlSet(<<Raw("/a", "", "")>>)
                   @@ "s3" :> Doc("ok", "500", "urlset", <<>>, <<Raw("/c", "", "")>>)
                   @@ "s4" :> Index(<<"s7">>)
                   @@ "s5" :> Doc("ok", "200", "html", <<>>, <<Raw("/c", "", "")>>)
                   @@ "s6" :> UrlSet(<<Raw("/a", "x=1", "")>>)
                   @@ "s7" :> Index(<<"s8">>)
                   @@ "s8" :> UrlSet(<<Raw("/b", "", "")>>),
                   NoMap, NoMap)

SiteNames == DOMAIN SiteOf
\* The sites of the fair runs: all but the six-page one, which has no
\* link, no fault and no failing sitemap.
LiveSiteNames == SiteNames \ {"index2x3"}
AllSitemaps == UNION {DOMAIN SiteOf[n].sitemaps : n \in SiteNames}


-----------------------------------------------------------------------------
(* Pure functions.                                                         *)

\* The words that consist of scheme characters only (letters, digits, "+",
\* "-", "."), and the words that begin with a slash.
SchemeWords == {"https", "http", "x.test"}
SlashWords == {"//", "/a", "/b", "/c", "/d", "/e", "/f"}

\* str.find from a place on: the place of the first word of text at or
\* after start that is in marks, Len(text) + 1 if there is none.
Find(text, start, marks) ==
    IF \E i \in start..Len(text) : text[i] \in marks
    THEN CHOOSE i \in start..Len(text) :
             text[i] \in marks /\ \A j \in start..(i - 1) : text[j] \notin marks
    ELSE Len(text) + 1

\* urlparse.  A scheme is what stands before the first colon if that is
\* one or more scheme characters; a netloc follows a "//" that comes next
\* and runs to the next slash, "?" or "#"; the fragment follows the first
\* "#", the query the first "?" before it, and the path is what is left.
\* Each part is text again, empty where the URL has no such part.
HasScheme(url) == Len(url) >= 2 /\ url[1] \in SchemeWords /\ url[2] = ":"
SchemeEnd(url) == IF HasScheme(url) THEN 2 ELSE 0
HasNetloc(url) == Len(url) > SchemeEnd(url) /\ url[SchemeEnd(url) + 1] = "//"
NetlocEnd(url) ==
    IF HasNetloc(url)
    THEN Find(url, SchemeEnd(url) + 2, SlashWords \cup {"?", "#"}) - 1
    ELSE SchemeEnd(url)
urlparse(url) ==
    [scheme |-> SubSeq(url, 1, SchemeEnd(url) - 1),
     netloc |-> SubSeq(url, SchemeEnd(url) + 2, NetlocEnd(url)),
     path |-> SubSeq(url, NetlocEnd(url) + 1, Find(url, NetlocEnd(url) + 1, {"?", "#"}) - 1),
     query |-> SubSeq(url, Find(url, NetlocEnd(url) + 1, {"?", "#"}) + 1,
                      Find(url, NetlocEnd(url) + 1, {"#"}) - 1),
     fragment |-> SubSeq(url, Find(url, NetlocEnd(url) + 1, {"#"}) + 1, Len(url))]

\* A normalisation that keeps the query string.
clean_url_with_query(url) ==
    LET parsed == urlparse(url)
    IN  parsed.scheme \o <<":", "//">> \o parsed.netloc \o parsed.path \o parsed.query

\* f"{parsed.scheme}://{parsed.netloc}{parsed.path}"
clean_url(url) ==
    LET parsed == urlparse(url)
    IN  parsed.scheme \o <<":", "//">> \o parsed.netloc \o parsed.path

OK == <<"OK">>
Broken(detail) == <<"Broken", detail>>
None == <<>>
Some(x) == <<x>>

\* Python's  part in status  on the parts of a status string.
In(part, status) == \E i \in 1..Len(status) : status[i] = part

\* An except clause for timeouts alone.
CaughtTimeoutOnly(resp) == resp.kind = "timeout"

\* The except clause of check_url: RequestException covers every transport
\* failure requests.get reports.
Caught(resp) == resp.kind = "error"

\* check_url on the answer of its GET: what it returns, or that it raises.
check_url(resp) ==
    IF resp.kind = "http"
    THEN IF resp.status_code = "200"
         THEN [raised |-> FALSE, status |-> OK, elapsed |-> Some(resp.elapsed)]
         ELSE [raised |-> FALSE, status |-> Broken(resp.status_code),
               elapsed |-> Some(resp.elapsed)]
    ELSE IF Caught(resp)
         THEN [raised |-> FALSE, status |-> Broken("RequestException"), elapsed |-> None]
         ELSE [raised |-> TRUE, status |-> <<>>, elapsed |-> None]

-----------------------------------------------------------------------------
(* State.                                                                  *)

VARIABLES
    site,            \* the web this run crawls (a name of SiteOf, or "pair")
    raw1, raw2,      \* the two <loc> texts of the site "pair"
    run,             \* which call of crawl_website in this process this is
    mainpc,          \* crawl_website's position
    smpc,            \* each parse_sitemap call's position, by sitemap (idle
                     \* for good where the site has no such sitemap)
    smi,             \* each parse_sitemap call's index in its URL set
    locked,          \* lock (threading.Lock: no owner, locked or not)
    seen_urls,
    q,               \* the Queue's items
    unfinished,      \* the Queue's unfinished_tasks, which join() waits on
    TOTAL_URLS,
    URLS_CHECKED,
    results,
    broken_urls,
    pc,              \* each worker's position in fetch_and_process_url
    url,             \* each worker's local url
    status,          \* each worker's local status
    elapsed,         \* each worker's local elapsed
    li,              \* each worker's index in the page's links
    upc,             \* update_progress's position
    progress_update_event,
    total_read,      \* update_progress: TOTAL_URLS as line 72 loaded it
    urls_pending,    \* update_progress's locals
    percent_complete,
    estimated_time_remaining,
    printed,         \* the last progress line printed
    put_count        \* history: how often each URL was put on the queue

vars == <<site, raw1, raw2, run, total_read, urls_pending, percent_complete,
          estimated_time_remaining, printed, mainpc, smpc, smi, locked, seen_urls, q, unfinished,
          TOTAL_URLS, URLS_CHECKED, results, broken_urls, pc, url, status,
          elapsed, li, upc, progress_update_event, put_count>>

sitemapVars == <<smpc, smi>>
workerVars == <<pc, url, status, elapsed, li>>
sharedVars == <<seen_urls, q, unfinished, TOTAL_URLS, put_count>>
outcomeVars == <<URLS_CHECKED, results, broken_urls>>
progressVars == <<upc, progress_update_event>>
envVars == <<site, raw1, raw2, run>>
reportVars == <<total_read, urls_pending, percent_complete,
                estimated_time_remaining, printed>>

Workers == 1..num_threads
\* The site "pair": one URL set that lists raw1 and raw2.
PairSite == Site("root" :> UrlSet(<<raw1, raw2>>), NoMap, NoMap)
ThisSite == IF site = "pair" THEN PairSite ELSE SiteOf[site]
Sitemaps == DOMAIN ThisSite.sitemaps
DocOf(s) == ThisSite.sitemaps[s]
Root == "root"

\* The answer to GET u, and the content of page u; a page no table names
\* answers 200 with no links.
\* requests.get raises a RequestException (MissingSchema, InvalidSchema,
\* InvalidURL) for a URL that has no http or https scheme or no host.
Fetchable(u) ==
    /\ Len(u) >= 4
    /\ u[1] \in {"http", "https"} /\ u[2] = ":"
    /\ u[3] = "//" /\ u[4] \notin SlashWords \cup {"?", "#"}
RespOf(u) ==
    IF u \in DOMAIN ThisSite.resp THEN ThisSite.resp[u]
    ELSE IF Fetchable(u) THEN Http("200", 1) ELSE TransportError
\* Every page of the site "pair" links to itself by its own URL
\* (urljoin(url, "") is url).
ContentOf(u) ==
    IF site = "pair" THEN Content(<<u>>)
    ELSE IF u \in DOMAIN ThisSite.content THEN ThisSite.content[u] ELSE Content(<<>>)

\* The parent of a child sitemap, and the children submitted before it.
ParentOf(c) ==
    CHOOSE p \in Sitemaps : \E i \in 1..Len(DocOf(p).sitemaps) : DocOf(p).sitemaps[i] = c
ChildrenOf(p) == {DocOf(p).sitemaps[i] : i \in 1..Len(DocOf(p).sitemaps)}
EarlierSiblings(c) ==
    LET kids == DocOf(ParentOf(c)).sitemaps
        k == CHOOSE i \in 1..Len(kids) : kids[i] = c
    IN  {kids[i] : i \in 1..(k - 1)}

NoUrl == <<>>

\* Queue.put: append the item and count it unfinished.
QPut(u) ==
    /\ q' = Append(q, u)
    /\ unfinished' = unfinished + 1
    /\ put_count' = [put_count EXCEPT ![u] = @ + 1]

\* Every normalized URL the site can put on the queue.
Listed ==
    UNION {{clean_url(DocOf(s).urls[i]) : i \in 1..Len(DocOf(s).urls)} : s \in Sitemaps}
AllPages ==
    Listed
    \cup (IF site = "pair" THEN {clean_url(u) : u \in Listed} ELSE {})
    \cup UNION {{clean_url(ThisSite.content[u].hrefs[i]) :
                    i \in 1..Len(ThisSite.content[u].hrefs)} :
                u \in DOMAIN ThisSite.content}

NoReport == <<>>
InitWith(names, locs) ==
    /\ site \in names
    /\ raw1 \in locs
    /\ raw2 \in locs
    /\ run = 1
    /\ total_read = 0
    /\ urls_pending = 0
    /\ percent_complete = 0
    /\ estimated_time_remaining = 0
    /\ printed = NoReport
    /\ mainpc = "parse_sitemap"
    /\ smpc = [s \in AllSitemaps |-> IF s = Root THEN "fetch" ELSE "idle"]
    /\ smi = [s \in AllSitemaps |-> 0]
    /\ locked = FALSE
    /\ seen_urls = {}
    /\ q = <<>>
    /\ unfinished = 0
    /\ TOTAL_URLS = 0
    /\ URLS_CHECKED = 0
    /\ results = <<>>
    /\ broken_urls = <<>>
    /\ pc = [w \in Workers |-> "unstarted"]
    /\ url = [w \in Workers |-> NoUrl]
    /\ status = [w \in Workers |-> <<>>]
    /\ elapsed = [w \in Workers |-> None]
    /\ li = [w \in Workers |-> 0]
    /\ upc = "unstarted"
    /\ progress_update_event = FALSE
    /\ put_count = [u \in AllPages |-> 0]

InitOn(names) == InitWith(names, {NoUrl})
Init == InitOn(SiteNames)
LiveInit == InitOn(LiveSiteNames)

-----------------------------------------------------------------------------
(* parse_sitemap.  Positions: idle (not called), submitted (handed to the  *)
(* parent's executor), fetch, wait (an index waiting for its children),    *)
(* lock / test / add / put / incr / unlock (one URL of a URL set),         *)
(* returned.                                                               *)

\* An acquire that does not wait: the enqueue sites without mutual exclusion.
CanAcquireAlways == TRUE

\* lock.acquire() returns only when the lock is not held.
CanAcquire == ~locked

\* parse_sitemap without its status test.
SitemapRejectedOnRaise(d) == d.fetch = "error"

\* The GET raised (the handler  except Exception  prints and returns) or
\* response.status_code != 200 (print and return).
SitemapRejected(d) == d.fetch = "error" \/ d.status_code # "200"

\* requests.get(sitemap_url), the status test and the parse of the body.
SitemapFetch(s) ==
    /\ smpc[s] = "fetch"
    /\ DocOf(s).fetch # "hang"
    /\ LET d == DocOf(s)
       IN  IF SitemapRejected(d)
           THEN smpc' = [smpc EXCEPT ![s] = "returned"]
           ELSE IF d.root = "sitemapindex"
           THEN smpc' = [c \in AllSitemaps |->
                           IF c \in ChildrenOf(s) THEN "submitted"
                           ELSE IF c = s
                                THEN (IF d.sitemaps = <<>> THEN "returned" ELSE "wait")
                                ELSE smpc[c]]
           ELSE IF d.root = "urlset" /\ d.urls # <<>>
           THEN smpc' = [smpc EXCEPT ![s] = "lock"]
           ELSE smpc' = [smpc EXCEPT ![s] = "returned"]
    /\ smi' = [smi EXCEPT ![s] = 1]
    /\ UNCHANGED <<envVars, reportVars, mainpc, locked, sharedVars, outcomeVars, workerVars, progressVars>>

\* A thread of the parent's executor takes the next submitted child: the
\* executor has at most max_workers threads and hands work out in order.
Running(p) == {c \in ChildrenOf(p) : smpc[c] \notin {"submitted", "returned"}}

\* An executor that starts a thread for every submitted call.
ThreadIdleAlways(p) == TRUE

\* ThreadPoolExecutor(max_workers=5): a submitted call starts when fewer
\* than max_workers of the executor's calls are running.
ThreadIdle(p) == Cardinality(Running(p)) < max_workers
SitemapStart(c) ==
    /\ smpc[c] = "submitted"
    /\ \A e \in EarlierSiblings(c) : smpc[e] # "submitted"
    /\ ThreadIdle(ParentOf(c))
    /\ smpc' = [smpc EXCEPT ![c] = "fetch"]
    /\ UNCHANGED <<envVars, reportVars, mainpc, smi, locked, sharedVars, outcomeVars, workerVars, progressVars>>

\* A parent that goes on once every child has been started.
ResultsNotAwaited(p) == \A c \in ChildrenOf(p) : smpc[c] # "submitted"

\* future.result() for every child, then the executor's shutdown.
ResultsAwaited(p) == \A c \in ChildrenOf(p) : smpc[c] = "returned"
SitemapJoin(p) ==
    /\ smpc[p] = "wait"
    /\ ResultsAwaited(p)
    /\ smpc' = [smpc EXCEPT ![p] = "returned"]
    /\ UNCHANGED <<envVars, reportVars, mainpc, smi, locked, sharedVars, outcomeVars, workerVars, progressVars>>

\* with lock:
SitemapLock(s) ==
    /\ smpc[s] = "lock"
    /\ CanAcquire
    /\ locked' = TRUE
    /\ smpc' = [smpc EXCEPT ![s] = "test"]
    /\ UNCHANGED <<envVars, reportVars, mainpc, smi, sharedVars, outcomeVars, workerVars, progressVars>>

SitemapLoc(s) == clean_url(DocOf(s).urls[smi[s]])

\* The sitemap loop without its membership test.
SitemapUnseenAlways(s) == TRUE

\* if clean_loc not in seen_urls:
SitemapUnseen(s) == SitemapLoc(s) \notin seen_urls
SitemapTest(s) ==
    /\ smpc[s] = "test"
    /\ smpc' = [smpc EXCEPT ![s] = IF SitemapUnseen(s) THEN "add" ELSE "unlock"]
    /\ UNCHANGED <<envVars, reportVars, mainpc, smi, locked, sharedVars, outcomeVars, workerVars, progressVars>>

\* seen_urls.add(clean_loc)
SitemapAdd(s) ==
    /\ smpc[s] = "add"
    /\ seen_urls' = seen_urls \cup {SitemapLoc(s)}
    /\ smpc' = [smpc EXCEPT ![s] = "put"]
    /\ UNCHANGED <<envVars, reportVars, mainpc, smi, locked, q, unfinished, TOTAL_URLS, put_count,
                   outcomeVars, workerVars, progressVars>>

\* q.put(clean_loc)
SitemapPut(s) ==
    /\ smpc[s] = "put"
    /\ QPut(SitemapLoc(s))
    /\ smpc' = [smpc EXCEPT ![s] = "incr"]
    /\ UNCHANGED <<envVars, reportVars, mainpc, smi, locked, seen_urls, TOTAL_URLS,
                   outcomeVars, workerVars, progressVars>>

\* A sitemap loop that does not count what it puts.
SitemapTotalLost == TOTAL_URLS

\* TOTAL_URLS += 1
SitemapTotal == TOTAL_URLS + 1
SitemapIncr(s) ==
    /\ smpc[s] = "incr"
    /\ TOTAL_URLS' = SitemapTotal
    /\ smpc' = [smpc EXCEPT ![s] = "unlock"]
    /\ UNCHANGED <<envVars, reportVars, mainpc, smi, locked, seen_urls, q, unfinished, put_count,
                   outcomeVars, workerVars, progressVars>>

\* The end of the with block, and the next url_tag or the return.
SitemapUnlock(s) ==
    /\ smpc[s] = "unlock"
    /\ locked' = FALSE
    /\ IF smi[s] < Len(DocOf(s).urls)
       THEN /\ smi' = [smi EXCEPT ![s] = @ + 1]
            /\ smpc' = [smpc EXCEPT ![s] = "lock"]
       ELSE /\ smi' = smi
            /\ smpc' = [smpc EXCEPT ![s] = "returned"]
    /\ UNCHANGED <<envVars, reportVars, mainpc, sharedVars, outcomeVars, workerVars, progressVars>>

-----------------------------------------------------------------------------
(* fetch_and_process_url.  Positions: unstarted, get, check, acquire,      *)
(* count, classify, refetch, links / add / put / incr (one link), release, *)
(* unwind (an exception leaving the try block), task_done, dead (the       *)
(* thread has ended).                                                      *)

\* url = q.get(): blocks while the queue is empty.
Get(w) ==
    /\ pc[w] = "get"
    /\ q # <<>>
    /\ url' = [url EXCEPT ![w] = Head(q)]
    /\ q' = Tail(q)
    /\ pc' = [pc EXCEPT ![w] = "check"]
    /\ UNCHANGED <<envVars, reportVars, mainpc, sitemapVars, locked, seen_urls, unfinished, TOTAL_URLS,
                   put_count, outcomeVars, status, elapsed, li, progressVars>>

\* status, elapsed = check_url(url).  The call is outside the try block: an
\* exception check_url let through would end the thread.
Check(w) ==
    /\ pc[w] = "check"
    /\ RespOf(url[w]).kind # "hang"
    /\ LET r == check_url(RespOf(url[w]))
       IN  /\ status' = [status EXCEPT ![w] = r.status]
           /\ elapsed' = [elapsed EXCEPT ![w] = r.elapsed]
           /\ pc' = [pc EXCEPT ![w] = IF r.raised THEN "dead" ELSE "acquire"]
    /\ UNCHANGED <<envVars, reportVars, mainpc, sitemapVars, locked, sharedVars, outcomeVars, url, li,
                   progressVars>>

\* lock.acquire()
Acquire(w) ==
    /\ pc[w] = "acquire"
    /\ CanAcquire
    /\ locked' = TRUE
    /\ pc' = [pc EXCEPT ![w] = "count"]
    /\ UNCHANGED <<envVars, reportVars, mainpc, sitemapVars, sharedVars, outcomeVars, url, status, elapsed,
                   li, progressVars>>

\* URLS_CHECKED += 1
Count(w) ==
    /\ pc[w] = "count"
    /\ URLS_CHECKED' = URLS_CHECKED + 1
    /\ pc' = [pc EXCEPT ![w] = "classify"]
    /\ UNCHANGED <<envVars, reportVars, mainpc, sitemapVars, locked, sharedVars, results, broken_urls, url,
                   status, elapsed, li, progressVars>>

\* The test as an equality with "Broken" instead of a containment.
IsBrokenExact(st) == st = <<"Broken">>

\* if "Broken" in status:
IsBroken(st) == In("Broken", st)

\* The tuple appended to a collection (the time of the append left out).
Outcome(w) == [url |-> url[w], status |-> status[w], elapsed |-> elapsed[w]]

\* The if/else on the status: one append, and link extraction only for 'OK'.
Classify(w) ==
    /\ pc[w] = "classify"
    /\ IF IsBroken(status[w])
       THEN /\ broken_urls' = Append(broken_urls, Outcome(w))
            /\ results' = results
            /\ pc' = [pc EXCEPT ![w] = "release"]
       ELSE /\ results' = Append(results, Outcome(w))
            /\ broken_urls' = broken_urls
            /\ pc' = [pc EXCEPT ![w] = IF status[w] = OK THEN "refetch" ELSE "release"]
    /\ UNCHANGED <<envVars, reportVars, mainpc, sitemapVars, locked, sharedVars, URLS_CHECKED, url, status,
                   elapsed, li, progressVars>>

\* page_content = requests.get(url).text and the parse, inside the try
\* block with the lock held; neither has a handler.
Refetch(w) ==
    /\ pc[w] = "refetch"
    /\ ContentOf(url[w]).kind # "hang"
    /\ LET c == ContentOf(url[w])
       IN  /\ pc' = [pc EXCEPT ![w] = IF c.kind = "raise" THEN "unwind"
                                      ELSE IF c.hrefs = <<>> THEN "release"
                                      ELSE "links"]
           /\ li' = [li EXCEPT ![w] = IF c.kind = "ok" /\ c.hrefs # <<>> THEN 1 ELSE 0]
    /\ UNCHANGED <<envVars, reportVars, mainpc, sitemapVars, locked, sharedVars, outcomeVars, url, status,
                   elapsed, progressVars>>

\* new_url = clean_url(urljoin(url, link['href']))
NewUrl(w) == clean_url(ContentOf(url[w]).hrefs[li[w]])

\* The next link of the page, or the end of the try block.
NextLink(w) ==
    IF li[w] < Len(ContentOf(url[w]).hrefs)
    THEN /\ li' = [li EXCEPT ![w] = @ + 1]
         /\ pc' = [pc EXCEPT ![w] = "links"]
    ELSE /\ li' = [li EXCEPT ![w] = 0]
         /\ pc' = [pc EXCEPT ![w] = "release"]

\* The link loop without its membership test.
UnseenAlways(w) == TRUE

\* if new_url not in seen_urls:
Unseen(w) == NewUrl(w) \notin seen_urls
LinkTest(w) ==
    /\ pc[w] = "links"
    /\ IF Unseen(w)
       THEN /\ pc' = [pc EXCEPT ![w] = "add"]
            /\ li' = li
       ELSE NextLink(w)
    /\ UNCHANGED <<envVars, reportVars, mainpc, sitemapVars, locked, sharedVars, outcomeVars, url, status,
                   elapsed, progressVars>>

\* seen_urls.add(new_url)
LinkAdd(w) ==
    /\ pc[w] = "add"
    /\ seen_urls' = seen_urls \cup {NewUrl(w)}
    /\ pc' = [pc EXCEPT ![w] = "put"]
    /\ UNCHANGED <<envVars, reportVars, mainpc, sitemapVars, locked, q, unfinished, TOTAL_URLS, put_count,
                   outcomeVars, url, status, elapsed, li, progressVars>>

\* q.put(new_url)
LinkPut(w) ==
    /\ pc[w] = "put"
    /\ QPut(NewUrl(w))
    /\ pc' = [pc EXCEPT ![w] = "incr"]
    /\ UNCHANGED <<envVars, reportVars, mainpc, sitemapVars, locked, seen_urls, TOTAL_URLS, outcomeVars,
                   url, status, elapsed, li, progressVars>>

\* TOTAL_URLS += 1
LinkIncr(w) ==
    /\ pc[w] = "incr"
    /\ TOTAL_URLS' = TOTAL_URLS + 1
    /\ NextLink(w)
    /\ UNCHANGED <<envVars, reportVars, mainpc, sitemapVars, locked, seen_urls, q, unfinished, put_count,
                   outcomeVars, url, status, elapsed, progressVars>>

\* finally: lock.release(), the try block having ended normally.
Release(w) ==
    /\ pc[w] = "release"
    /\ locked' = FALSE
    /\ pc' = [pc EXCEPT ![w] = "task_done"]
    /\ UNCHANGED <<envVars, reportVars, mainpc, sitemapVars, sharedVars, outcomeVars, url, status, elapsed,
                   li, progressVars>>

\* Where an exception that left the try block takes the worker once the
\* finally clause has run: the try has no except clause and the while loop
\* is inside no handler, so the exception leaves the thread's function.
AfterRaise == "dead"

\* A release written after the try body, which an exception skips.
LockAfterUnwindHeld == locked

\* finally: lock.release() runs on the way out of the try, whatever the way.
LockAfterUnwind == FALSE

\* finally: lock.release(), an exception being in flight.
Unwind(w) ==
    /\ pc[w] = "unwind"
    /\ locked' = LockAfterUnwind
    /\ pc' = [pc EXCEPT ![w] = AfterRaise]
    /\ UNCHANGED <<envVars, reportVars, mainpc, sitemapVars, sharedVars, outcomeVars, url, status, elapsed,
                   li, progressVars>>

\* A loop that never reports its task done.
AfterTaskDoneLost == unfinished

\* Queue.task_done: one unfinished task fewer.
AfterTaskDone == unfinished - 1

\* q.task_done(), and back to the top of the loop.
TaskDone(w) ==
    /\ pc[w] = "task_done"
    /\ unfinished' = AfterTaskDone
    /\ pc' = [pc EXCEPT ![w] = "get"]
    /\ url' = [url EXCEPT ![w] = NoUrl]
    /\ status' = [status EXCEPT ![w] = <<>>]
    /\ elapsed' = [elapsed EXCEPT ![w] = None]
    /\ UNCHANGED <<envVars, reportVars, mainpc, sitemapVars, locked, seen_urls, q, TOTAL_URLS, put_count,
                   outcomeVars, li, progressVars>>

-----------------------------------------------------------------------------
(* update_progress.  Positions: unstarted, while, report, exited.          *)

\* A loop that never sees the event:  while True.
is_set_never == FALSE

\* progress_update_event.is_set()
is_set == progress_update_event

\* while not progress_update_event.is_set():
ProgressWhile ==
    /\ upc = "while"
    /\ upc' = IF is_set THEN "exited" ELSE "report"
    /\ UNCHANGED <<envVars, reportVars, mainpc, sitemapVars, locked, sharedVars, outcomeVars, workerVars,
                   progress_update_event>>

\* time.sleep(5), the reads of the counters and the print, as one step
\* that keeps no record of what was read and printed.
ProgressReport ==
    /\ upc = "report"
    /\ upc' = "while"
    /\ UNCHANGED <<envVars, reportVars, mainpc, sitemapVars, locked, sharedVars, outcomeVars, workerVars,
                   progress_update_event>>

\* The same report statement by statement, with its locals and its output.
\* Further positions: pending, percent, estimate, print.  The counters are
\* read without the lock, so the workers may change them between any two
\* of these steps; line 72 loads TOTAL_URLS before URLS_CHECKED.
observedVars == <<envVars, mainpc, sitemapVars, locked, sharedVars, outcomeVars,
                  workerVars, progress_update_event>>

\* time.sleep(5) is over; line 72 loads TOTAL_URLS.
ProgressLoadTotal ==
    /\ upc = "report"
    /\ total_read' = TOTAL_URLS
    /\ upc' = "pending"
    /\ UNCHANGED <<observedVars, urls_pending, percent_complete,
                   estimated_time_remaining, printed>>

\* urls_pending = TOTAL_URLS - URLS_CHECKED
ProgressPending ==
    /\ upc = "pending"
    /\ urls_pending' = total_read - URLS_CHECKED
    /\ upc' = "percent"
    /\ UNCHANGED <<observedVars, total_read, percent_complete,
                   estimated_time_remaining, printed>>

\* (URLS_CHECKED / TOTAL_URLS) * 100 if TOTAL_URLS else 0, in whole percent
Percent(checked, total) == IF total # 0 THEN (checked * 100) \div total ELSE 0
ProgressPercent ==
    /\ upc = "percent"
    /\ percent_complete' = Percent(URLS_CHECKED, TOTAL_URLS)
    /\ upc' = "estimate"
    /\ UNCHANGED <<observedVars, total_read, urls_pending,
                   estimated_time_remaining, printed>>

\* elapsed_time = datetime.now() - START_TIME, in seconds: at least one
\* sleep, or more.
ElapsedTimes == {5, 60}

\* (elapsed_time / URLS_CHECKED * urls_pending) if URLS_CHECKED else timedelta(0)
Estimate(elapsed_time, checked, pending) ==
    IF checked # 0 THEN (elapsed_time \div checked) * pending ELSE 0
ProgressEstimate ==
    /\ upc = "estimate"
    /\ \E elapsed_time \in ElapsedTimes :
          estimated_time_remaining' = Estimate(elapsed_time, URLS_CHECKED, urls_pending)
    /\ upc' = "print"
    /\ UNCHANGED <<observedVars, total_read, urls_pending, percent_complete, printed>>

\* print(f"Checked {URLS_CHECKED}/{TOTAL_URLS} | Pending: ... ")
ProgressPrint ==
    /\ upc = "print"
    /\ printed' = [checked |-> URLS_CHECKED, total |-> TOTAL_URLS,
                   pending |-> urls_pending, percent |-> percent_complete,
                   remaining |-> estimated_time_remaining]
    /\ upc' = "while"
    /\ UNCHANGED <<observedVars, total_read, urls_pending, percent_complete,
                   estimated_time_remaining>>

-----------------------------------------------------------------------------
(* crawl_website.  Positions: parse_sitemap, start_workers, start_update,  *)
(* join, set_event, join_update, done.                                     *)

\* parse_sitemap(urljoin(start_url, '/sitemap.xml'), ...) has returned.
SitemapReturned ==
    /\ mainpc = "parse_sitemap"
    /\ smpc[Root] = "returned"
    /\ mainpc' = "start_workers"
    /\ UNCHANGED <<envVars, reportVars, sitemapVars, locked, sharedVars, outcomeVars, workerVars,
                   progressVars>>

\* One turn of  for _ in range(num_threads): worker.start()
StartWorker(w) ==
    /\ mainpc = "start_workers"
    /\ pc[w] = "unstarted"
    /\ \A v \in Workers : v < w => pc[v] # "unstarted"
    /\ pc' = [pc EXCEPT ![w] = "get"]
    /\ mainpc' = IF w = num_threads THEN "start_update" ELSE mainpc
    /\ UNCHANGED <<envVars, reportVars, sitemapVars, locked, sharedVars, outcomeVars, url, status, elapsed,
                   li, progressVars>>

\* update_thread.start()
StartUpdate ==
    /\ mainpc = "start_update"
    /\ upc' = "while"
    /\ mainpc' = "join"
    /\ UNCHANGED <<envVars, reportVars, sitemapVars, locked, sharedVars, outcomeVars, workerVars,
                   progress_update_event>>

\* A join that looks at the queue's length alone.
JoinReadyQueueEmpty == q = <<>>

\* Queue.join returns when no task is unfinished.
JoinReady == unfinished = 0

\* q.join()
Join ==
    /\ mainpc = "join"
    /\ JoinReady
    /\ mainpc' = "set_event"
    /\ UNCHANGED <<envVars, reportVars, sitemapVars, locked, sharedVars, outcomeVars, workerVars,
                   progressVars>>

\* progress_update_event.set()
SetEvent ==
    /\ mainpc = "set_event"
    /\ progress_update_event' = TRUE
    /\ mainpc' = "join_update"
    /\ UNCHANGED <<envVars, reportVars, sitemapVars, locked, sharedVars, outcomeVars, workerVars, upc>>

\* update_thread.join(), then the report is written from the collections.
JoinUpdate ==
    /\ mainpc = "join_update"
    /\ upc = "exited"
    /\ mainpc' = "done"
    /\ UNCHANGED <<envVars, reportVars, sitemapVars, locked, sharedVars, outcomeVars, workerVars,
                   progressVars>>

-----------------------------------------------------------------------------

SitemapStep(s) ==
    \/ SitemapFetch(s)
    \/ SitemapStart(s)
    \/ SitemapJoin(s)
    \/ SitemapLock(s)
    \/ SitemapTest(s)
    \/ SitemapAdd(s)
    \/ SitemapPut(s)
    \/ SitemapIncr(s)
    \/ SitemapUnlock(s)

WorkerStep(w) ==
    \/ Get(w)
    \/ Check(w)
    \/ Acquire(w)
    \/ Count(w)
    \/ Classify(w)
    \/ Refetch(w)
    \/ LinkTest(w)
    \/ LinkAdd(w)
    \/ LinkPut(w)
    \/ LinkIncr(w)
    \/ Release(w)
    \/ Unwind(w)
    \/ TaskDone(w)

ProgressStep == ProgressWhile \/ ProgressReport

ObservedProgressStep ==
    \/ ProgressWhile
    \/ ProgressLoadTotal
    \/ ProgressPending
    \/ ProgressPercent
    \/ ProgressEstimate
    \/ ProgressPrint

MainStep ==
    \/ SitemapReturned
    \/ \E w \in Workers : StartWorker(w)
    \/ StartUpdate
    \/ Join
    \/ SetEvent
    \/ JoinUpdate

Next ==
    \/ \E s \in AllSitemaps : SitemapStep(s)
    \/ \E w \in Workers : WorkerStep(w)
    \/ ProgressStep
    \/ MainStep

Spec == Init /\ [][Next]_vars

\* The threads are scheduled fairly: each one that can take a step does.
Fairness ==
    /\ \A s \in AllSitemaps : WF_vars(SitemapStep(s))
    /\ \A w \in Workers : WF_vars(WorkerStep(w))
    /\ WF_vars(ProgressStep)
    /\ WF_vars(MainStep)

LiveSpec == LiveInit /\ [][Next]_vars /\ Fairness


\* The crawl of a URL set of two entries, over every pair of <loc> texts.
UrlInit == InitOn(LiveSiteNames) \/ InitWith({"pair"}, RawUrls)
UrlSpec == UrlInit /\ [][Next]_vars


\* crawl_website called again in the same process after an earlier call
\* has returned.  Lines 113-119 make a new queue, set, lock and lists, and
\* new threads are started; the module's globals (lines 12-15 and 108) are
\* assigned nowhere in crawl_website.  The earlier call's workers stay
\* blocked on the earlier queue, which nothing puts to again.
MaxRuns == 2
Restart ==
    /\ mainpc = "done"
    /\ run < MaxRuns
    /\ run' = run + 1
    /\ mainpc' = "parse_sitemap"
    /\ smpc' = [s \in AllSitemaps |-> IF s = Root THEN "fetch" ELSE "idle"]
    /\ smi' = [s \in AllSitemaps |-> 0]
    /\ locked' = FALSE
    /\ seen_urls' = {}
    /\ q' = <<>>
    /\ unfinished' = 0
    /\ results' = <<>>
    /\ broken_urls' = <<>>
    /\ pc' = [w \in Workers |-> "unstarted"]
    /\ url' = [w \in Workers |-> NoUrl]
    /\ status' = [w \in Workers |-> <<>>]
    /\ elapsed' = [w \in Workers |-> None]
    /\ li' = [w \in Workers |-> 0]
    /\ upc' = "unstarted"
    /\ put_count' = [u \in DOMAIN put_count |-> 0]
    /\ UNCHANGED <<site, raw1, raw2, TOTAL_URLS, URLS_CHECKED,
                   progress_update_event, reportVars>>

\* The crawl with update_progress taken statement by statement.
ObservedNext ==
    \/ \E s \in AllSitemaps : SitemapStep(s)
    \/ \E w \in Workers : WorkerStep(w)
    \/ ObservedProgressStep
    \/ MainStep
\* Its sites: one with an index, one with links and a fault, one with no
\* URL at all.
ObservedSiteNames == {"childfail", "fault", "rooterror"}
ObservedInit == InitOn(ObservedSiteNames)
ObservedSpec == ObservedInit /\ [][ObservedNext]_vars

RerunNext == Next \/ Restart
RerunSpec == LiveInit /\ [][RerunNext]_vars

-----------------------------------------------------------------------------
(* Vocabulary of the properties.                                           *)

JoinReturned == mainpc \in {"set_event", "join_update", "done"}
Pushed == {u \in DOMAIN put_count : put_count[u] > 0}
Outcomes == results \o broken_urls
OutcomesOf(u) == {i \in 1..Len(Outcomes) : Outcomes[i].url = u}

\* The threads inside a  with lock  block or between acquire and release.
SitemapsInLock == {s \in Sitemaps : smpc[s] \in {"test", "add", "put", "incr", "unlock"}}
WorkersInLock ==
    {w \in Workers : pc[w] \in {"count", "classify", "refetch", "links", "add", "put",
                                "incr", "release", "unwind"}}
\* The workers that hold a dequeued URL whose task_done is still to come.
WorkersInFlight == {w \in Workers : pc[w] \notin {"unstarted", "get"}}

-----------------------------------------------------------------------------
\* C1: once q.join() has returned, results and broken_urls together hold
\* as many entries as distinct URLs were ever put on the queue, and every
\* URL that was put has exactly one entry.
EveryPushedUrlCheckedOnce ==
    JoinReturned =>
        /\ Len(results) + Len(broken_urls) = Cardinality(Pushed)
        /\ \A u \in Pushed : Cardinality(OutcomesOf(u)) = 1

\* Four URLs were pushed, one by link extraction; one is OK, three Broken.
JoinedWithMixedOutcomes ==
    /\ site = "broken"
    /\ JoinReturned
    /\ Cardinality(Pushed) = 4
    /\ Len(results) = 1
    /\ Len(broken_urls) = 3

\* C2: at every moment no URL has two entries in results and broken_urls
\* taken together (so none is in both and none is twice in either).
AtMostOneOutcomePerUrl ==
    \A i, j \in 1..Len(Outcomes) : Outcomes[i].url = Outcomes[j].url => i = j

\* Both collections are filled while two workers are still at work on
\* further URLs.
OutcomesInBothWhileWorking ==
    /\ site = "broken"
    /\ results # <<>>
    /\ broken_urls # <<>>
    /\ \A w \in Workers : pc[w] \in {"check", "acquire"}

\* C3: test, insert and put happen with the lock held by one thread alone,
\* at both enqueue sites, and no URL is put on the queue twice.
EnqueueAtomicAndOnce ==
    /\ Cardinality(SitemapsInLock) + Cardinality(WorkersInLock) <= 1
    /\ (SitemapsInLock # {} \/ WorkersInLock # {}) => locked
    /\ \A u \in DOMAIN put_count : put_count[u] <= 1

\* A leaf expansion finds, under the lock, the URL its sibling has put,
\* and a worker finds the link another worker's page has put.
DuplicateMetUnderLock ==
    \/ /\ site = "overlap"
       /\ smpc["s2"] = "test"
       /\ smi["s2"] = 1
       /\ put_count[Page("/a")] = 1
    \/ /\ site = "overlap"
       /\ \E w \in Workers : pc[w] = "links" /\ NewUrl(w) \in seen_urls
       /\ \E v \in Workers : pc[v] = "acquire"

\* C4: after q.join() has returned the queue is empty and every worker is
\* back at q.get(): none holds a URL whose task_done is still to come.
JoinOnlyWhenDrained ==
    JoinReturned => q = <<>> /\ WorkersInFlight = {}

\* The join returned in a run where link extraction added work after the
\* queue had run empty.
JoinedAfterLateDiscovery ==
    /\ site = "selfloop"
    /\ mainpc = "set_event"
    /\ put_count[Page("/b")] = 1
    /\ Len(results) = 2

\* Every GET of the site answers: no host stays silent and no content GET
\* or parse raises.
EveryFetchReturns ==
    /\ \A s \in Sitemaps : DocOf(s).fetch # "hang"
    /\ \A u \in DOMAIN ThisSite.resp : ThisSite.resp[u].kind # "hang"
    /\ \A u \in DOMAIN ThisSite.content : ThisSite.content[u].kind = "ok"

\* C5: when every fetch returns and the threads are scheduled fairly the
\* crawl completes, cycles and self-links included; page a linking to b
\* and to itself ends with exactly two outcomes.
CrawlCompletes ==
    /\ EveryFetchReturns ~> (mainpc = "done")
    /\ [](site = "selfloop" /\ mainpc = "done" => Len(results) + Len(broken_urls) = 2)

SelfLoopCrawlDone ==
    /\ site = "selfloop"
    /\ mainpc = "done"
    /\ Len(results) = 2
    /\ \A w \in Workers : pc[w] = "get"

\* C6: a fault inside link extraction does not end the worker's loop: no
\* worker thread ever ends.
FaultCaughtAtWorkerBoundary == \A w \in Workers : pc[w] # "dead"

\* What the answer to the check of worker w's URL is.
CheckedBroken(w) ==
    /\ pc[w] \in {"acquire", "count", "classify", "release", "task_done"}
    /\ \/ RespOf(url[w]).kind = "error"
       \/ RespOf(url[w]).kind = "http" /\ RespOf(url[w]).status_code # "200"

\* C7: every step of a worker whose URL checked Broken leaves seen_urls,
\* the puts, TOTAL_URLS and results alone and never enters the content
\* re-fetch or the link loop; its one append goes to broken_urls.
BrokenOnlyAppendsToBroken ==
    [][\A w \in Workers :
          CheckedBroken(w) /\ pc'[w] # pc[w] =>
              /\ seen_urls' = seen_urls
              /\ put_count' = put_count
              /\ TOTAL_URLS' = TOTAL_URLS
              /\ results' = results
              /\ pc'[w] \in {"count", "classify", "release", "task_done", "get"}
              /\ pc[w] = "classify" =>
                    /\ Len(broken_urls') = Len(broken_urls) + 1
                    /\ broken_urls'[Len(broken_urls')].url = url[w]
              /\ pc[w] # "classify" => broken_urls' = broken_urls]_vars

\* The 404 page, whose body has a link, has been recorded and released.
BrokenPageRecorded ==
    /\ site = "broken"
    /\ \E w \in Workers : pc[w] = "task_done" /\ url[w] = Page("/a")
    /\ \E i \in 1..Len(broken_urls) : broken_urls[i].url = Page("/a")
    /\ Page("/e") \notin seen_urls

\* A sitemap whose GET fails or answers other than 200, or whose body is
\* neither a sitemap index nor a URL set.
FailedSitemap(s) ==
    \/ DocOf(s).fetch = "error"
    \/ DocOf(s).status_code # "200"
    \/ DocOf(s).root \notin {"sitemapindex", "urlset"}

\* C8: a failed sitemap's call only returns: its steps add nothing to
\* seen_urls, the queue or TOTAL_URLS and submit no child; when the root
\* fails the crawl completes with both collections empty.
FailedSitemapAddsNothing ==
    /\ [][\A s \in Sitemaps :
             FailedSitemap(s) /\ smpc'[s] # smpc[s] =>
                 /\ smpc'[s] \in {"submitted", "fetch", "returned"}
                 /\ UNCHANGED <<seen_urls, q, unfinished, put_count, TOTAL_URLS>>
                 /\ smpc[s] = "fetch" => \A c \in Sitemaps \ {s} : smpc'[c] = smpc[c]]_vars
    /\ [](FailedSitemap(Root) /\ JoinReturned =>
             results = <<>> /\ broken_urls = <<>> /\ seen_urls = {})
    /\ FailedSitemap(Root) ~> (mainpc = "done")

\* The root sitemap answered 404 with a URL set as body, and the crawl is done.
RootRejectedCrawlDone ==
    /\ site = "root404"
    /\ mainpc = "done"
    /\ smpc[Root] = "returned"
    /\ results = <<>>
    /\ broken_urls = <<>>

\* C9: whatever the GET's answer, a worker past check_url holds a value:
\* 'OK' with the elapsed time for 200, a Broken status naming the code
\* with the elapsed time for another code, a Broken status without elapsed
\* time for a transport failure.
CheckUrlAlwaysReturnsValue ==
    \A w \in Workers :
        pc[w] \notin {"unstarted", "get", "check"} =>
            LET r == RespOf(url[w])
            IN  /\ status[w] # <<>>
                /\ r.kind = "http" /\ r.status_code = "200" =>
                      status[w] = <<"OK">> /\ elapsed[w] = <<r.elapsed>>
                /\ r.kind = "http" /\ r.status_code # "200" =>
                      /\ status[w][1] = "Broken"
                      /\ \E i \in 1..Len(status[w]) : status[w][i] = r.status_code
                      /\ elapsed[w] = <<r.elapsed>>
                /\ r.kind = "error" =>
                      /\ status[w][1] = "Broken"
                      /\ elapsed[w] = <<>>

\* One worker holds the result of a 404, the other that of a transport failure.
BothBrokenKindsReturned ==
    /\ site = "broken"
    /\ \E w, v \in Workers :
          /\ pc[w] = "acquire" /\ url[w] = Page("/a") /\ elapsed[w] = <<2>>
          /\ pc[v] = "acquire" /\ url[v] = Page("/b") /\ elapsed[v] = <<>>

\* C10: once q.join() has returned URLS_CHECKED = TOTAL_URLS =
\* len(results) + len(broken_urls); for the index of two children with
\* three unique URLs each that is 6, 6, six results and no broken URL.
CountersAgreeAtCompletion ==
    /\ JoinReturned =>
          /\ URLS_CHECKED = TOTAL_URLS
          /\ TOTAL_URLS = Len(results) + Len(broken_urls)
    /\ site = "index2x3" /\ JoinReturned =>
          /\ TOTAL_URLS = 6
          /\ URLS_CHECKED = 6
          /\ Len(results) = 6
          /\ broken_urls = <<>>

SixUrlsCrawled ==
    /\ site = "index2x3"
    /\ mainpc = "done"
    /\ TOTAL_URLS = 6
    /\ Len(results) = 6

\* C11: two <loc> texts with the same scheme, host and path that differ
\* only in query string or fragment normalize to one URL, which has neither
\* a query nor a fragment, so a URL set listing both (https://x.test/a?x=1
\* and https://x.test/a?x=2 among them) makes one queue entry and one
\* outcome; and clean_url of a page's own normalized URL, which link
\* extraction meets as a link of the page to itself, is that URL again.
SameSchemeHostPath(a, b) ==
    /\ urlparse(a).scheme = urlparse(b).scheme
    /\ urlparse(a).netloc = urlparse(b).netloc
    /\ urlparse(a).path = urlparse(b).path
FetchNeverStalls ==
    \A w \in Workers : pc[w] \in {"check", "refetch"} => ENABLED WorkerStep(w)


\* C13: every call of crawl_website, a second one in the same process
\* included, begins with TOTAL_URLS = 0 and URLS_CHECKED = 0, and at its
\* completion the counters count the URLs of that call only.
CountersResetAtCrawlStart ==
    /\ mainpc = "parse_sitemap" /\ smpc[Root] = "fetch" =>
          TOTAL_URLS = 0 /\ URLS_CHECKED = 0
    /\ JoinReturned =>
          TOTAL_URLS = Cardinality(Pushed) /\ URLS_CHECKED = Len(Outcomes)


\* C14: network I/O of one worker does not block the others: while a
\* worker waits on a request, the content re-fetch of link extraction
\* included, any other worker that has checked its URL can enter the
\* bookkeeping section unless a thread is doing bookkeeping there.
Bookkeeping ==
    {w \in Workers : pc[w] \in {"count", "classify", "links", "add", "put", "incr",
                                "release", "unwind"}}
NetworkWaitBlocksNoOne ==
    \A w, v \in Workers :
        /\ pc[w] \in {"check", "refetch"}
        /\ pc[v] = "acquire"
        /\ Bookkeeping = {}
        /\ SitemapsInLock = {}
        => ENABLED Acquire(v)


\* C15: sitemap expansion is over before crawling begins: while any
\* parse_sitemap call, the root's or a child's, is running, no worker has
\* been started and crawl_website is still inside its call at line 122; so
\* no worker dequeues or checks a URL during expansion, and once a worker
\* has started no sitemap step adds a URL.
ExpansionRunning == {s \in AllSitemaps : smpc[s] \notin {"idle", "returned"}}
ExpansionBeforeCrawling ==
    /\ [](ExpansionRunning # {} =>
             /\ mainpc = "parse_sitemap"
             /\ \A w \in Workers : pc[w] = "unstarted")
    /\ [][(\E w \in Workers : pc[w] # "unstarted") => UNCHANGED sitemapVars]_vars

\* A worker checks a URL of the nested child after every call has returned.
WorkerChecksAfterExpansion ==
    /\ site = "childfail"
    /\ ExpansionRunning = {}
    /\ smpc["s5"] = "returned"
    /\ \E w \in Workers : pc[w] = "check" /\ url[w] = Page("/d")

\* C16: at most 5 child expansions of one sitemap index run at a time; a
\* parent call returns only after each of its children has returned, at
\* every depth of nesting; and a child that fails does not keep a sibling
\* from being expanded: when the parent has returned, every URL of every
\* child URL set is in seen_urls.  (Stated of the states in which
\* crawl_website is still at line 122: later no call changes position and
\* seen_urls only grows.)
IsIndex(p) ==
    DocOf(p).fetch = "ok" /\ DocOf(p).status_code = "200" /\ DocOf(p).root = "sitemapindex"
IsUrlSet(c) ==
    DocOf(c).fetch = "ok" /\ DocOf(c).status_code = "200" /\ DocOf(c).root = "urlset"
BoundedFanOut ==
    \A p \in Sitemaps :
        /\ Cardinality({c \in ChildrenOf(p) : smpc[c] \notin {"idle", "submitted", "returned"}}) <= 5
        /\ mainpc = "parse_sitemap" /\ smpc[p] = "returned" /\ IsIndex(p) =>
              \A c \in ChildrenOf(p) :
                  /\ smpc[c] = "returned"
                  /\ IsUrlSet(c) =>
                        \A i \in 1..Len(DocOf(c).urls) : clean_url(DocOf(c).urls[i]) \in seen_urls

\* Five children of the index of six are running, the sixth waits; later
\* the root has returned with the failed children beside the expanded ones.
FiveChildrenRunning ==
    /\ site = "wide"
    /\ \A c \in {"s1", "s2", "s3", "s4", "s5"} : smpc[c] = "fetch"
    /\ smpc["s6"] = "submitted"


\* C17: the crawl state is frozen at completion: from the return of
\* q.join() on, no step changes TOTAL_URLS, URLS_CHECKED, seen_urls,
\* results, broken_urls or the queue, and no worker holds a URL, so what
\* the report is built from is final.
FrozenAtCompletion ==
    /\ [][JoinReturned =>
             UNCHANGED <<TOTAL_URLS, URLS_CHECKED, seen_urls, results, broken_urls, q>>]_vars
    /\ [](JoinReturned => q = <<>> /\ \A w \in Workers : pc[w] = "get")

\* The crawl of the two linked pages and the missing one is done.
CycleCrawlDone ==
    /\ site = "cycle"
    /\ mainpc = "done"
    /\ Len(results) = 2
    /\ Len(broken_urls) = 1
    /\ TOTAL_URLS = 3


\* C18: update_progress only observes: none of its steps writes
\* TOTAL_URLS, URLS_CHECKED, seen_urls, the queue or the result lists or
\* touches the lock, and it always has a step to take whoever holds the
\* lock; a line that shows TOTAL_URLS 0 shows 0 percent, a line that shows
\* URLS_CHECKED 0 shows a zero estimate; and once progress_update_event is
\* set the loop test ends the thread, so that at most the report under way
\* is still printed.
ProgressActive == upc \notin {"unstarted", "exited"}
ProgressOnlyObserves ==
    /\ [][ProgressActive /\ (upc' # upc \/ reportVars' # reportVars) =>
             UNCHANGED <<TOTAL_URLS, URLS_CHECKED, seen_urls, q, unfinished, results,
                         broken_urls, locked, put_count>>]_vars
    /\ [](ProgressActive => ENABLED ObservedProgressStep)
    /\ [](printed # NoReport =>
             /\ printed.total = 0 => printed.percent = 0
             /\ printed.checked = 0 => printed.remaining = 0)
    /\ [][progress_update_event /\ upc = "while" => upc' \in {"while", "exited"}]_vars
    /\ [][progress_update_event /\ upc = "exited" => upc' = "exited" /\ printed' = printed]_vars

\* A line printed before any URL was found, the thread ended by the event.
ZeroLinePrintedThenExited ==
    /\ upc = "exited"
    /\ progress_update_event
    /\ printed # NoReport
    /\ printed.total = 0
    /\ printed.percent = 0
    /\ printed.remaining = 0


\* C19: in every state of one crawl run 0 <= URLS_CHECKED <= TOTAL_URLS,
\* so TOTAL_URLS - URLS_CHECKED is not negative; and whenever the lock is
\* free TOTAL_URLS is the size of seen_urls and every URL in the queue is
\* in seen_urls.
CountersConsistent ==
    /\ 0 <= URLS_CHECKED
    /\ URLS_CHECKED <= TOTAL_URLS
    /\ TOTAL_URLS - URLS_CHECKED >= 0
    /\ ~locked =>
          /\ TOTAL_URLS = Cardinality(seen_urls)
          /\ \A i \in 1..Len(q) : q[i] \in seen_urls

\* The lock is free after a link was found and two pages were checked, one
\* URL still queued.
LockFreeMidCrawl ==
    /\ site = "broken"
    /\ ~locked
    /\ TOTAL_URLS = 4
    /\ URLS_CHECKED = 2
    /\ Len(q) = 1

\* C20: the lock is released on every way out of a worker's bookkeeping
\* section, the raise of the link-extraction step included: the lock is
\* held only while some thread is inside its section, never by a worker
\* that has ended or gone on, so a worker waiting at lock.acquire() can
\* take the lock whenever no thread is inside.
LockReleasedOnEveryExit ==
    /\ locked => WorkersInLock # {} \/ SitemapsInLock # {}
    /\ \A v \in Workers :
          pc[v] = "acquire" /\ WorkersInLock = {} /\ SitemapsInLock = {} =>
              ENABLED Acquire(v)

\* After the worker of /a has ended on the raise, the other worker is
\* inside the section recording /b.
OtherWorkerRecordsAfterFault ==
    /\ site = "fault"
    /\ \E w, v \in Workers :
          /\ pc[w] = "dead"
          /\ pc[v] = "classify"
          /\ url[v] = Page("/b")
    /\ locked


=============================================================================
